---- MODULE Spec2Model ----
(***************************************************************************)
(* Model of the PDG graph assembler of pdg/src/builder.rs: construct_pdg   *)
(* folds add_node over an event trace, threading the graph arena, the      *)
(* Latest-Assignment table and the provenance table.                       *)
(*                                                                         *)
(* Option<T> is a sequence of length 0 (None) or 1 (Some(x) = <<x>>).      *)
(* A (GraphId, NodeId) pair is <<gid, nid>>, both 0-based as in the arena; *)
(* graph gid is graphs[gid + 1] and its node nid is graphs[gid + 1][nid+1].*)
(***************************************************************************)
EXTENDS Naturals, Integers, Sequences, FiniteSets, TLC

\* Length of the longest trace construct_pdg is run on.
MaxEvents == 3
\* Number of MIR rewrites distribute is given.
MaxRewrites == 2

None == <<>>
Some(x) == <<x>>

\* Pointer values seen in the trace, MIR local slots and function identities.
Pointers == {1, 2}
Locals == {1, 2}
Funcs == {1, 2}
\* Keys of the provenance table: pointers, and locals converted by CopyRef.
ProvKeys == Pointers \cup Locals

\* Operand descriptors (MirPlace): a local slot and a projection path.
Place(l, proj) == [local |-> l, projection |-> proj]

\* Transfer hints.
TkNone == <<"None">>
TkArg(f) == <<"Arg", f>>
TkRet(f) == <<"Ret", f>>

MirLocRec(fn, bb, st, src, dst, tk) ==
    [body_def |-> fn, basic_block_idx |-> bb, statement_idx |-> st,
     metadata |-> [source |-> src, destination |-> dst, transfer_kind |-> tk]]

\* The location backing store: mir_loc id -> MirLoc.
MirLocs ==
    (1 :> MirLocRec(1, 1, 2, None, Some(Place(1, <<>>)), TkNone)) @@
    (2 :> MirLocRec(1, 1, 3, Some(Place(1, <<>>)), Some(Place(2, <<>>)), TkNone)) @@
    (3 :> MirLocRec(1, 2, 1, Some(Place(1, <<0>>)), Some(Place(1, <<0>>)), TkNone)) @@
    (4 :> MirLocRec(1, 2, 2, Some(Place(1, <<>>)), Some(Place(1, <<>>)), TkArg(2))) @@
    (5 :> MirLocRec(1, 2, 3, Some(Place(1, <<>>)), None, TkRet(2))) @@
    (6 :> MirLocRec(2, 1, 1, None, None, TkNone))
\* A location id the backing store has no entry for.
UnknownLoc == CHOOSE id \in 1..9 : id \notin DOMAIN MirLocs

\* mir_loc::get: the MirLoc of a location id, or None when the store has none.
MirLocGet(id) == IF id \in DOMAIN MirLocs THEN Some(MirLocs[id]) ELSE None

\* An event: kind with its payload (ptr is old_ptr for Realloc; new_ptr is used
\* by Realloc and Offset; arg is the field, local index or offset) and mir_loc.
Ev(k, p, q, a, loc) == [kind |-> k, ptr |-> p, new_ptr |-> q, arg |-> a, mir_loc |-> loc]

EventKinds ==
    {"Alloc", "Realloc", "Free", "CopyPtr", "CopyRef", "Field", "LoadAddr",
     "StoreAddr", "LoadValue", "StoreValue", "AddrOfLocal", "ToInt", "FromInt",
     "Offset", "Ret", "Done"}

\* EventKind::ptr: the pointer of interest of an event.
EventPtr(e) == IF e.kind \in {"CopyRef", "Done"} THEN None ELSE Some(e.ptr)

\* EventKind::has_parent
has_parent(e) == e.kind \notin {"Realloc", "Alloc", "AddrOfLocal", "Done"}

\* EventKind::parent
parent(e, obj) == IF has_parent(e) THEN None ELSE Some(obj)

\* opt.and_then(|p| event.kind.parent(p))
AndThenParent(e, opt) == IF opt = None THEN None ELSE parent(e, opt[1])

\* Mutant of to_node_kind: a Ret event maps to a node kind.
to_node_kind_ret(e) ==
    CASE e.kind = "Alloc"       -> Some([tag |-> "Malloc", arg |-> 1])
      [] e.kind = "Realloc"     -> Some([tag |-> "Malloc", arg |-> 1])
      [] e.kind = "Free"        -> Some([tag |-> "Free", arg |-> 0])
      [] e.kind = "CopyPtr"     -> Some([tag |-> "Copy", arg |-> 0])
      [] e.kind = "CopyRef"     -> Some([tag |-> "Copy", arg |-> 0])
      [] e.kind = "Field"       -> Some([tag |-> "Field", arg |-> e.arg])
      [] e.kind = "LoadAddr"    -> Some([tag |-> "LoadAddr", arg |-> 0])
      [] e.kind = "StoreAddr"   -> Some([tag |-> "StoreAddr", arg |-> 0])
      [] e.kind = "LoadValue"   -> Some([tag |-> "LoadValue", arg |-> 0])
      [] e.kind = "StoreValue"  -> Some([tag |-> "StoreValue", arg |-> 0])
      [] e.kind = "AddrOfLocal" -> Some([tag |-> "AddrOfLocal", arg |-> e.arg])
      [] e.kind = "ToInt"       -> Some([tag |-> "PtrToInt", arg |-> 0])
      [] e.kind = "FromInt"     -> Some([tag |-> "IntToPtr", arg |-> 0])
      [] e.kind = "Ret"         -> Some([tag |-> "Copy", arg |-> 0])
      [] e.kind = "Offset"      -> Some([tag |-> "Offset", arg |-> e.arg])
      [] e.kind = "Done"        -> None

\* EventKind::to_node_kind
to_node_kind(e) ==
    CASE e.kind = "Alloc"       -> Some([tag |-> "Malloc", arg |-> 1])
      [] e.kind = "Realloc"     -> Some([tag |-> "Malloc", arg |-> 1])
      [] e.kind = "Free"        -> Some([tag |-> "Free", arg |-> 0])
      [] e.kind = "CopyPtr"     -> Some([tag |-> "Copy", arg |-> 0])
      [] e.kind = "CopyRef"     -> Some([tag |-> "Copy", arg |-> 0])
      [] e.kind = "Field"       -> Some([tag |-> "Field", arg |-> e.arg])
      [] e.kind = "LoadAddr"    -> Some([tag |-> "LoadAddr", arg |-> 0])
      [] e.kind = "StoreAddr"   -> Some([tag |-> "StoreAddr", arg |-> 0])
      [] e.kind = "LoadValue"   -> Some([tag |-> "LoadValue", arg |-> 0])
      [] e.kind = "StoreValue"  -> Some([tag |-> "StoreValue", arg |-> 0])
      [] e.kind = "AddrOfLocal" -> Some([tag |-> "AddrOfLocal", arg |-> e.arg])
      [] e.kind = "ToInt"       -> Some([tag |-> "PtrToInt", arg |-> 0])
      [] e.kind = "FromInt"     -> Some([tag |-> "IntToPtr", arg |-> 0])
      [] e.kind = "Ret"         -> None
      [] e.kind = "Offset"      -> Some([tag |-> "Offset", arg |-> e.arg])
      [] e.kind = "Done"        -> None

\* (src_fn, dest_fn) from the transfer hint.
SrcFn(loc) ==
    IF loc.metadata.transfer_kind[1] = "Ret"
    THEN loc.metadata.transfer_kind[2] ELSE loc.body_def
\* Mutant of DestFn: the destination function ignores the Arg hint.
DestFn_body(loc) == loc.body_def

\* dest_fn: the hint's target for Arg, the enclosing function otherwise.
DestFn(loc) ==
    IF loc.metadata.transfer_kind[1] = "Arg"
    THEN loc.metadata.transfer_kind[2] ELSE loc.body_def

\* Block and statement index, forced to 0 for TransferKind::Arg.
BlockOf(loc) == IF loc.metadata.transfer_kind[1] = "Arg" THEN 0 ELSE loc.basic_block_idx
StmtOf(loc) == IF loc.metadata.transfer_kind[1] = "Arg" THEN 0 ELSE loc.statement_idx

\* head: provenance of the event's pointer of interest.
HeadOf(prov, e) == IF EventPtr(e) = None THEN None ELSE prov[EventPtr(e)[1]]

\* nodes.iter().rposition(|n| n.dest == metadata.source, both present)
RPosition(nodes, src) ==
    LET hits == {i \in 1..Len(nodes) :
                    /\ nodes[i].dest # None
                    /\ src # None
                    /\ nodes[i].dest[1] = src[1]}
    IN IF hits = {} THEN None
       ELSE Some((CHOOSE i \in hits : \A j \in hits : j <= i) - 1)

\* ptr: the most recent node of head's graph whose dest equals the source descriptor.
PtrOf(gs, head, md) ==
    IF head = None THEN None
    ELSE LET gid == head[1][1]
             pos == RPosition(gs[gid + 1], md.source)
         IN IF pos = None THEN None ELSE Some(<<gid, pos[1]>>)

\* Mutant of SourceFromPlace: no scan for a trailing Field node.
SourceFromPlace_nochase(gs, la, e, src, src_fn, head) ==
    IF src.projection = <<>> THEN la[<<src_fn, src.local>>]
    ELSE IF e.kind = "Field" THEN la[<<src_fn, src.local>>]
    ELSE head

\* The closure of lines 185-208 applied to a present source descriptor.
SourceFromPlace(gs, la, e, src, src_fn, head) ==
    LET latest_assignment == la[<<src_fn, src.local>>]
        chase ==
            IF src.projection # <<>> /\ latest_assignment # None
            THEN LET gid == latest_assignment[1][1]
                     nodes == gs[gid + 1]
                 IN IF Len(nodes) > 0 /\ nodes[Len(nodes)].kind.tag = "Field"
                    THEN Some(<<gid, Len(nodes) - 1>>)
                    ELSE None
            ELSE None
    IN IF chase # None THEN chase
       ELSE IF src.projection = <<>> THEN latest_assignment
       ELSE IF e.kind = "Field" THEN latest_assignment
       ELSE head

\* Mutant of SourceOf: head is the fallback whenever nothing else resolved.
SourceOf_headfallback(gs, la, e, loc, head, ptr) ==
    IF ptr # None THEN ptr
    ELSE IF loc.metadata.source = None THEN head
    ELSE LET found == SourceFromPlace(gs, la, e, loc.metadata.source[1], SrcFn(loc), head)
         IN IF found # None THEN found ELSE head

\* source = ptr.or(metadata.source.and_then(closure))
SourceOf(gs, la, e, loc, head, ptr) ==
    IF ptr # None THEN ptr
    ELSE IF loc.metadata.source = None THEN None
    ELSE SourceFromPlace(gs, la, e, loc.metadata.source[1], SrcFn(loc), head)

\* Mutant of NodeSource: keeps the graph component of the pair instead of the node's.
NodeSource_gid(e, source) ==
    LET p == AndThenParent(e, source)
    IN IF p = None THEN None ELSE Some(p[1][1])

\* Node.source: the parent-filtered source, node index only.
NodeSource(e, source) ==
    LET p == AndThenParent(e, source)
    IN IF p = None THEN None ELSE Some(p[1][2])

\* The graph the node goes to: Some(gid), or None for a new graph.
ChooseGraph(e, source, ptr, head) ==
    LET first == IF source # None THEN source ELSE IF ptr # None THEN ptr ELSE head
        p == AndThenParent(e, first)
    IN IF p = None THEN None ELSE Some(p[1][1])

\* The Node built for an event.
MakeNode(e, loc, kind, source) ==
    [function |-> DestFn(loc),
     block |-> BlockOf(loc),
     index |-> StmtOf(loc),
     kind |-> kind,
     source |-> NodeSource(e, source),
     dest |-> loc.metadata.destination]

\* Mutant of PushNode: a second, empty graph is pushed with every new graph.
PushNode_emptygraph(gs, gopt, node) ==
    IF gopt = None THEN Append(Append(gs, <<node>>), <<>>)
    ELSE [gs EXCEPT ![gopt[1] + 1] = Append(@, node)]

\* Mutant of PushNode: inserts the node at the front of an existing graph.
PushNode_front(gs, gopt, node) ==
    IF gopt = None THEN Append(gs, <<node>>)
    ELSE [gs EXCEPT ![gopt[1] + 1] = <<node>> \o @]

\* graphs.graphs[graph_id].nodes.push(node), after push(Graph::new()) if needed.
PushNode(gs, gopt, node) ==
    IF gopt = None THEN Append(gs, <<node>>)
    ELSE [gs EXCEPT ![gopt[1] + 1] = Append(@, node)]
GraphIdOf(gs, gopt) == IF gopt = None THEN Len(gs) ELSE gopt[1]
NodeIdOf(gs, gopt) == IF gopt = None THEN 0 ELSE Len(gs[gopt[1] + 1])

\* Mutant of CopyPtrProvenance: insert instead of try_insert.
CopyPtrProvenance_overwrite(prov, e, mapping) ==
    [prov |-> [prov EXCEPT ![e.ptr] = Some(mapping)],
     warned |-> prov[e.ptr] # None, panicked |-> FALSE]

\* Mutant of CopyPtrProvenance: an untracked pointer is logged and left unbound.
CopyPtrProvenance_untracked(prov, e, mapping) ==
    [prov |-> prov, warned |-> prov[e.ptr] = None, panicked |-> FALSE]

\* update_provenance, CopyPtr arm: try_insert, and a warning when it fails.
CopyPtrProvenance(prov, e, mapping) ==
    IF prov[e.ptr] = None
    THEN [prov |-> [prov EXCEPT ![e.ptr] = Some(mapping)], warned |-> FALSE, panicked |-> FALSE]
    ELSE [prov |-> prov, warned |-> TRUE, panicked |-> FALSE]

\* Mutant of InsertProvenance: an existing binding is kept.
InsertProvenance_ifabsent(prov, key, mapping) ==
    [prov |-> IF prov[key] = None THEN [prov EXCEPT ![key] = Some(mapping)] ELSE prov,
     warned |-> FALSE, panicked |-> FALSE]

\* provenances.insert(key, mapping)
InsertProvenance(prov, key, mapping) ==
    [prov |-> [prov EXCEPT ![key] = Some(mapping)], warned |-> FALSE, panicked |-> FALSE]

\* update_provenance: the table it leaves, whether it logged a warning, and
\* whether unwrapping the destination of a CopyRef panicked.
update_provenance(prov, e, md, mapping) ==
    CASE e.kind = "Alloc" -> InsertProvenance(prov, e.ptr, mapping)
      [] e.kind = "CopyPtr" -> CopyPtrProvenance(prov, e, mapping)
      [] e.kind = "Realloc" -> InsertProvenance(prov, e.new_ptr, mapping)
      [] e.kind = "Offset" -> InsertProvenance(prov, e.new_ptr, mapping)
      [] e.kind = "CopyRef" ->
            IF md.destination = None
            THEN [prov |-> prov, warned |-> FALSE, panicked |-> TRUE]
            ELSE InsertProvenance(prov, md.destination[1].local, mapping)
      [] e.kind = "AddrOfLocal" -> InsertProvenance(prov, e.ptr, mapping)
      [] OTHER -> [prov |-> prov, warned |-> FALSE, panicked |-> FALSE]

\* Mutant of UpdateLatest: the entry is filed under the slot of the source descriptor.
UpdateLatest_srcslot(la, gs, md, dest_fn, mapping) ==
    IF md.destination = None THEN la
    ELSE IF md.source # None
    THEN [la EXCEPT ![<<dest_fn, md.source[1].local>>] = Some(mapping)]
    ELSE [la EXCEPT ![<<dest_fn, md.destination[1].local>>] = Some(mapping)]

\* Mutant of UpdateLatest: the new entry always replaces the previous one.
UpdateLatest_overwrite(la, gs, md, dest_fn, mapping) ==
    IF md.destination = None THEN la
    ELSE [la EXCEPT ![<<dest_fn, md.destination[1].local>>] = Some(mapping)]

\* The Latest-Assignment update of lines 231-249; gs already holds the new node.
\* The entry is written, and written back when the previous one was a
\* whole-object write and this one is a field write.
UpdateLatest(la, gs, md, dest_fn, mapping) ==
    IF md.destination = None THEN la
    ELSE LET dest == md.destination[1]
             unique_place == <<dest_fn, dest.local>>
             last == la[unique_place]
         IN IF /\ last # None
               /\ dest.projection # <<>>
               /\ gs[last[1][1] + 1][last[1][2] + 1].dest # None
               /\ gs[last[1][1] + 1][last[1][2] + 1].dest[1].projection = <<>>
            THEN la
            ELSE [la EXCEPT ![unique_place] = Some(mapping)]

\* The unwrap of the previous entry's dest (lines 239-242) panics: the entry is
\* inspected only for a field write, and its node has no dest.
LatestUnwrapPanics(la, gs, md, dest_fn) ==
    /\ md.destination # None
    /\ la[<<dest_fn, md.destination[1].local>>] # None
    /\ md.destination[1].projection # <<>>
    /\ LET last == la[<<dest_fn, md.destination[1].local>>][1]
       IN gs[last[1] + 1][last[2] + 1].dest = None

\* add_node on (graphs, latest_assignment, provenances): the state it leaves,
\* its return value, and whether it panicked or logged a warning.
add_node(gs, la, prov, e) ==
    LET kind == to_node_kind(e)
        got == MirLocGet(e.mir_loc)
    IN IF kind = None
       THEN [graphs |-> gs, latest_assignment |-> la, provenances |-> prov,
             ret |-> None, warned |-> FALSE, panicked |-> FALSE]
       ELSE IF got = None
       THEN [graphs |-> gs, latest_assignment |-> la, provenances |-> prov,
             ret |-> None, warned |-> FALSE, panicked |-> TRUE]
       ELSE
         LET loc == got[1]
             md == loc.metadata
             head == HeadOf(prov, e)
             ptr == PtrOf(gs, head, md)
             source == SourceOf(gs, la, e, loc, head, ptr)
             node == MakeNode(e, loc, kind[1], source)
             gopt == ChooseGraph(e, source, ptr, head)
             graph_id == GraphIdOf(gs, gopt)
             node_id == NodeIdOf(gs, gopt)
             gs2 == PushNode(gs, gopt, node)
             up == update_provenance(prov, e, md, <<graph_id, node_id>>)
         IN IF up.panicked
            THEN [graphs |-> gs2, latest_assignment |-> la, provenances |-> up.prov,
                  ret |-> None, warned |-> up.warned, panicked |-> TRUE]
            ELSE IF LatestUnwrapPanics(la, gs2, md, DestFn(loc))
            THEN [graphs |-> gs2,
                  latest_assignment |-> [la EXCEPT ![<<DestFn(loc), md.destination[1].local>>] =
                                            Some(<<graph_id, node_id>>)],
                  provenances |-> up.prov,
                  ret |-> None, warned |-> up.warned, panicked |-> TRUE]
            ELSE [graphs |-> gs2,
                  latest_assignment |-> UpdateLatest(la, gs2, md, DestFn(loc), <<graph_id, node_id>>),
                  provenances |-> up.prov,
                  ret |-> Some(node_id), warned |-> up.warned, panicked |-> FALSE]

\* The events traces are drawn from: every kind, at locations that exercise
\* each shape of metadata, and one event whose location is unknown.
Events ==
    {Ev(k, p, 0, 0, l) : k \in {"Alloc", "CopyPtr"}, p \in Pointers, l \in {1, 2}}
    \cup {Ev("Alloc", 1, 0, 0, 4), Ev("CopyPtr", 1, 0, 0, 3), Ev("CopyPtr", 1, 0, 0, 4)}
    \cup {Ev("Field", 1, 0, 0, 2), Ev("Field", 1, 0, 0, 3), Ev("Field", 2, 0, 0, 3)}
    \cup {Ev("AddrOfLocal", 1, 0, 1, 1), Ev("AddrOfLocal", 2, 0, 1, 2), Ev("AddrOfLocal", 1, 0, 1, 3)}
    \cup {Ev("Realloc", 1, 2, 0, l) : l \in {1, 2}}
    \cup {Ev("Realloc", 1, 1, 0, 1)}
    \cup {Ev("Offset", 1, 2, 1, l) : l \in {2, 3}}
    \cup {Ev("CopyRef", 0, 0, 0, l) : l \in {2, 6}}
    \cup {Ev(k, 1, 0, 0, 5) : k \in {"Free", "LoadAddr", "StoreAddr", "LoadValue",
                                      "StoreValue", "ToInt", "FromInt"}}
    \cup {Ev("Alloc", 2, 0, 0, 5)}
    \cup {Ev("Ret", 1, 0, 0, 5), Ev("Done", 0, 0, 0, UnknownLoc), Ev("Free", 2, 0, 0, UnknownLoc)}

(***************************************************************************)
(* distribute of c2rust-analyze/src/rewrite/expr/distribute.rs: each MIR   *)
(* rewrite is filed under the HirId of the unlower-map origin of its key   *)
(* (Location, Vec<SubLoc>).  After the loop every HirId whose rewrites     *)
(* come from different pieces of MIR is reported, and the value returned   *)
(* keeps only the RewriteKinds of info_map.                                *)
(***************************************************************************)

\* The MIR location of the rewrites, the HirIds and the origin descriptions.
Locations == {1}
HirIds == {1, 2}
OriginDescs == {"Expr", "StoreIntoLocal", "LoadFromTemp"}
RewriteKinds == {"K1", "K2"}

\* Sub-location paths with an unlower-map entry, and those of the rewrites.
UnlowerSubLocs == {<<>>, <<"Rvalue">>, <<"Rvalue", "CallArg0">>}
RewriteSubLocs == UnlowerSubLocs \cup {<<"RvalueOperand0">>, <<"Rvalue", "RvalueOperand0">>}

MirOrigin(h, d) == [hir_id |-> h, desc |-> d]
MirRewrite(l, sl, k) == [loc |-> l, sub_loc |-> sl, kind |-> k]

\* The unlower maps distribute is run on: each key absent or with any origin.
UnlowerKeys == Locations \X UnlowerSubLocs
UnlowerMaps ==
    [UnlowerKeys -> {None} \cup {Some(MirOrigin(h, d)) : h \in HirIds, d \in OriginDescs}]
Rewrites == {MirRewrite(l, sl, k) : l \in Locations, sl \in RewriteSubLocs, k \in RewriteKinds}

\* unlower_map.get(&key)
UnlowerGet(umap, key) == IF key \in DOMAIN umap THEN umap[key] ELSE None

\* Lines 44-55: the key of a rewrite and its origin, retried without a
\* trailing RvalueOperand(0).
FirstLookup(umap, rw) ==
    LET key == <<rw.loc, rw.sub_loc>>
        origin == UnlowerGet(umap, key)
        n == Len(rw.sub_loc)
    IN IF origin = None /\ n > 0 /\ rw.sub_loc[n] = "RvalueOperand0"
       THEN LET popped == <<rw.loc, SubSeq(rw.sub_loc, 1, n - 1)>>
            IN IF UnlowerGet(umap, popped) = None
               THEN [key |-> key, origin |-> None]
               ELSE [key |-> popped, origin |-> UnlowerGet(umap, popped)]
       ELSE [key |-> key, origin |-> origin]

\* Lines 64-76: a StoreIntoLocal origin of an empty path is replaced by the Expr
\* origin of the key extended with Rvalue, when there is one.
RetryWithRvalue(umap, key, origin) ==
    IF origin.desc = "StoreIntoLocal" /\ Len(key[2]) = 0
    THEN LET longer == <<key[1], Append(key[2], "Rvalue")>>
             o == UnlowerGet(umap, longer)
         IN IF o # None /\ o[1].desc = "Expr"
            THEN [key |-> longer, origin |-> o[1]]
            ELSE [key |-> key, origin |-> origin]
    ELSE [key |-> key, origin |-> origin]

\* Lines 78-85: the origin is neither Expr nor LoadFromTemp, which is logged.
CannotDistribute(origin) == origin.desc # "Expr" /\ origin.desc # "LoadFromTemp"

\* Lines 87-95: info_map.entry(origin.hir_id).or_default().push(RewriteInfo)
PushInfo(imap, rw, key, origin) ==
    [imap EXCEPT ![origin.hir_id] =
        Append(@, [rw |-> rw.kind, loc |-> rw.loc, sub_loc |-> key[2], desc |-> origin.desc])]

\* One iteration of the loop of lines 42-97: the info_map it leaves and whether
\* error! was called.
DistributeOne(umap, imap, rw) ==
    LET first == FirstLookup(umap, rw)
    IN IF first.origin = None
       THEN [info_map |-> imap, error |-> TRUE]
       ELSE LET found == RetryWithRvalue(umap, first.key, first.origin[1])
            IN [info_map |-> PushInfo(imap, rw, found.key, found.origin),
                error |-> CannotDistribute(found.origin)]

\* Lines 105-107: the rewrites of one HirId all have the location, the path and
\* the description of the first.
all_same_loc(infos) ==
    \A i \in 2..Len(infos) :
        /\ infos[i].loc = infos[1].loc
        /\ infos[i].sub_loc = infos[1].sub_loc
        /\ infos[i].desc = infos[1].desc

\* Lines 104-108: the HirIds of info_map that fail the check.  An entry exists
\* once a rewrite was pushed under the HirId.
AmbiguousHirIds(imap) == {h \in HirIds : imap[h] # <<>> /\ ~all_same_loc(imap[h])}

\* Lines 123-126: the map returned, HirId to the RewriteKinds in push order.
KindsOnly(imap) ==
    [h \in {x \in HirIds : imap[x] # <<>>} |-> [i \in 1..Len(imap[h]) |-> imap[h][i].rw]]

\* Lines 104-126: tcx.hir().expect_expr(hir_id) panics for a HirId that is not
\* an expression; otherwise error! is called for each ambiguous HirId and the
\* map is returned.  info_map is a HashMap, so the ambiguous HirIds reported
\* before a panic are any of the ambiguous expressions.
FinishOutcomes(imap, exprs) ==
    LET amb == AmbiguousHirIds(imap)
    IN IF amb \subseteq exprs
       THEN {[ambiguous |-> amb, panicked |-> FALSE, result |-> Some(KindsOnly(imap))]}
       ELSE {[ambiguous |-> a, panicked |-> TRUE, result |-> None] : a \in SUBSET (amb \cap exprs)}

VARIABLES graphs, latest_assignment, provenances, processed, aborted, warned, last, ret,
          unlower_map, hir_exprs, info_map, dist_error, dist_count, dist_last,
          dist_done, dist_ambiguous, dist_panicked, dist_result

pdgVars == <<graphs, latest_assignment, provenances, processed, aborted, warned, last, ret>>
distVars == <<unlower_map, hir_exprs, info_map, dist_error, dist_count, dist_last,
              dist_done, dist_ambiguous, dist_panicked, dist_result>>
vars == <<pdgVars, distVars>>

\* construct_pdg before its loop: Graphs::new() and an empty provenance table.
PdgInit ==
    /\ graphs = <<>>
    /\ latest_assignment = [k \in Funcs \X Locals |-> None]
    /\ provenances = [p \in ProvKeys |-> None]
    /\ processed = 0
    /\ aborted = FALSE
    /\ warned = FALSE
    /\ last = None
    /\ ret = None

\* distribute before its loop: an empty info_map.
DistInit ==
    /\ info_map = [h \in HirIds |-> <<>>]
    /\ dist_error = FALSE
    /\ dist_count = 0
    /\ dist_last = None
    /\ dist_done = FALSE
    /\ dist_ambiguous = {}
    /\ dist_panicked = FALSE
    /\ dist_result = None

Init ==
    /\ PdgInit
    /\ unlower_map = [k \in UnlowerKeys |-> None]
    /\ hir_exprs = HirIds
    /\ DistInit

\* One iteration of construct_pdg's loop: add_node on the next event.
AddNodeStep(e) ==
    /\ ~aborted
    /\ processed < MaxEvents
    /\ LET r == add_node(graphs, latest_assignment, provenances, e)
       IN /\ graphs' = r.graphs
          /\ latest_assignment' = r.latest_assignment
          /\ provenances' = r.provenances
          /\ ret' = r.ret
          /\ warned' = r.warned
          /\ aborted' = r.panicked
    /\ processed' = processed + 1
    /\ last' = Some(e)
    /\ UNCHANGED distVars

Next == \E e \in Events : AddNodeStep(e)

Spec == Init /\ [][Next]_vars

\* distribute on any unlower map of the bounded shape, with any of the HirIds
\* being expressions of the HIR held by tcx.
InitDist ==
    /\ PdgInit
    /\ unlower_map \in UnlowerMaps
    /\ hir_exprs \in SUBSET HirIds
    /\ DistInit

\* One iteration of distribute's loop over the MIR rewrites.
DistributeStep(rw) ==
    /\ ~dist_done
    /\ dist_count < MaxRewrites
    /\ LET r == DistributeOne(unlower_map, info_map, rw)
       IN /\ info_map' = r.info_map
          /\ dist_error' = r.error
    /\ dist_count' = dist_count + 1
    /\ dist_last' = Some(rw)
    /\ UNCHANGED <<unlower_map, hir_exprs, dist_done, dist_ambiguous, dist_panicked,
                   dist_result, pdgVars>>

\* The rest of distribute once mir_rewrites is exhausted: the ambiguity check
\* and the returned map.
DistributeFinish ==
    /\ ~dist_done
    /\ dist_done' = TRUE
    /\ \E o \in FinishOutcomes(info_map, hir_exprs) :
          /\ dist_ambiguous' = o.ambiguous
          /\ dist_panicked' = o.panicked
          /\ dist_result' = o.result
    /\ UNCHANGED <<unlower_map, hir_exprs, info_map, dist_error, dist_count, dist_last,
                   pdgVars>>

NextDist ==
    \/ \E rw \in Rewrites : DistributeStep(rw)
    \/ DistributeFinish

SpecDist == InitDist /\ [][NextDist]_vars

(***************************************************************************)
(* Vocabulary of the properties.                                           *)
(***************************************************************************)

\* The step just taken ran add_node on event e.
Processed(e) == processed' = processed + 1 /\ last' = Some(e)

\* The event's location is in the backing store.
Resolved(e) == MirLocGet(e.mir_loc) # None
MetaOf(e) == MirLocGet(e.mir_loc)[1].metadata

\* Kinds the has-parent rule lets chain, and kinds that start a lineage.
LineageKinds == {"Alloc", "Realloc", "AddrOfLocal"}
ChainingKinds == EventKinds \ (LineageKinds \cup {"Ret", "Done"})

\* The (GraphId, NodeId) of the node the step appended.
NewMapping ==
    LET g == CHOOSE g \in 0..(Len(graphs') - 1) :
                 g >= Len(graphs) \/ graphs'[g + 1] # graphs[g + 1]
    IN <<g, Len(graphs'[g + 1]) - 1>>

\* The step appended exactly one node, at the end of existing graph gid: the
\* nodes the graph had are where they were and the new node comes after them.
AppendedTo(gid) ==
    /\ Len(graphs') = Len(graphs)
    /\ Len(graphs'[gid + 1]) = Len(graphs[gid + 1]) + 1
    /\ SubSeq(graphs'[gid + 1], 1, Len(graphs[gid + 1])) = graphs[gid + 1]
    /\ \A g \in 1..Len(graphs) : g # gid + 1 => graphs'[g] = graphs[g]

\* The step appended exactly one node as the first node of a fresh graph.
AppendedFresh ==
    /\ Len(graphs') = Len(graphs) + 1
    /\ Len(graphs'[Len(graphs')]) = 1
    /\ \A g \in 1..Len(graphs) : graphs'[g] = graphs[g]

\* The last node of the graph the step appended to is the node of event e.
LastNodeIsOf(e) ==
    /\ graphs'[NewMapping[1] + 1][NewMapping[2] + 1].kind = to_node_kind(e)[1]
    /\ NewMapping[2] + 1 = Len(graphs'[NewMapping[1] + 1])

AllNodes == {<<g, n>> \in (0..MaxEvents) \X (0..MaxEvents) :
                g < Len(graphs) /\ n < Len(graphs[g + 1])}
NodeAt(g, n) == graphs[g + 1][n + 1]

(***************************************************************************)
(* C1 -- Has-parent invariant: every node produced by an Alloc, Realloc or *)
(* AddrOfLocal event (kind Malloc or AddrOfLocal) has an empty source.     *)
(* The code's parent() keeps the source for exactly these kinds, so the    *)
(* statement is violated.                                                  *)
(***************************************************************************)
C1_HasParentInvariant ==
    \A m \in AllNodes :
        NodeAt(m[1], m[2]).kind.tag \in {"Malloc", "AddrOfLocal"}
            => NodeAt(m[1], m[2]).source = None

(***************************************************************************)
(* C2 -- New lineage: every Alloc, Realloc and AddrOfLocal event whose     *)
(* location resolves gets a fresh graph and its node is that graph's first *)
(* node.  Violated: such an event is appended to its pointer's graph.      *)
(***************************************************************************)
C2_NewLineage ==
    [][\A e \in Events :
         (Processed(e) /\ e.kind \in LineageKinds /\ Resolved(e)) => AppendedFresh]_vars

(***************************************************************************)
(* C3 -- Exact-match chaining: a chaining-kind event whose pointer has a   *)
(* provenance entry in graph G, and whose source descriptor equals the     *)
(* dest of a node of G, is appended to G with source = the most recent     *)
(* such node.  Violated: the node goes to a fresh graph with no source.    *)
(***************************************************************************)
C3_ExactMatchChaining ==
    [][\A e \in Events :
         (/\ Processed(e)
          /\ e.kind \in ChainingKinds
          /\ Resolved(e)
          /\ HeadOf(provenances, e) # None
          /\ PtrOf(graphs, HeadOf(provenances, e), MetaOf(e)) # None)
         => LET m == PtrOf(graphs, HeadOf(provenances, e), MetaOf(e))[1]
            IN /\ AppendedTo(m[1])
               /\ graphs'[m[1] + 1][Len(graphs'[m[1] + 1])].source = Some(m[2])]_vars

(***************************************************************************)
(* C4 -- A new graph only when nothing resolves: a chaining-kind event for *)
(* which source, ptr or head is present is appended to that graph (source's*)
(* first, then ptr's, then head's) and the number of graphs does not grow. *)
(* Violated: every chaining-kind event opens a new graph.                  *)
(***************************************************************************)
C4_NewGraphOnlyWhenUnresolved ==
    [][\A e \in Events :
         (/\ Processed(e)
          /\ e.kind \in ChainingKinds
          /\ Resolved(e))
         => LET loc == MirLocGet(e.mir_loc)[1]
                head == HeadOf(provenances, e)
                ptr == PtrOf(graphs, head, loc.metadata)
                source == SourceOf(graphs, latest_assignment, e, loc, head, ptr)
                first == IF source # None THEN source ELSE IF ptr # None THEN ptr ELSE head
            IN first # None => AppendedTo(first[1][1])]_vars

(***************************************************************************)
(* C5 -- At-most-one-writer for copies: a CopyPtr(P) event leaves the      *)
(* provenance table exactly as it was when P has an entry, and binds P to  *)
(* the new node only when P had none.                                      *)
(***************************************************************************)
C5_CopyKeepsEntry ==
    [][\A e \in Events :
         (Processed(e) /\ e.kind = "CopyPtr")
         => /\ provenances[e.ptr] # None => provenances' = provenances
            /\ provenances'[e.ptr] # provenances[e.ptr]
                 => /\ provenances[e.ptr] = None
                    /\ provenances'[e.ptr] = Some(NewMapping)]_vars

\* A CopyPtr(P) was processed while P was already bound to an older node.
C5_Witness ==
    /\ last # None
    /\ last[1].kind = "CopyPtr"
    /\ ret # None
    /\ warned
    /\ provenances[last[1].ptr] # None
    /\ provenances[last[1].ptr][1][1] # Len(graphs) - 1

(***************************************************************************)
(* C6 -- Whole-object precedence: while the Latest-Assignment entry of     *)
(* (f, S) points to a node whose dest has an empty projection, an event    *)
(* whose destination is S in f with a non-empty projection leaves the      *)
(* entry in place; only an event whose destination is S in f with an empty *)
(* projection replaces it.                                                 *)
(***************************************************************************)
C6_WholeObjectPrecedence ==
    [][\A e \in Events : \A k \in Funcs \X Locals :
         (/\ Processed(e)
          /\ latest_assignment[k] # None
          /\ NodeAt(latest_assignment[k][1][1], latest_assignment[k][1][2]).dest # None
          /\ NodeAt(latest_assignment[k][1][1], latest_assignment[k][1][2]).dest[1].projection = <<>>)
         => /\ (/\ Resolved(e)
                /\ MetaOf(e).destination # None
                /\ <<DestFn(MirLocGet(e.mir_loc)[1]), MetaOf(e).destination[1].local>> = k
                /\ MetaOf(e).destination[1].projection # <<>>)
               => latest_assignment'[k] = latest_assignment[k]
            /\ latest_assignment'[k] # latest_assignment[k]
               => /\ Resolved(e)
                  /\ MetaOf(e).destination # None
                  /\ <<DestFn(MirLocGet(e.mir_loc)[1]), MetaOf(e).destination[1].local>> = k
                  /\ MetaOf(e).destination[1].projection = <<>>
                  /\ latest_assignment'[k] = Some(NewMapping)]_vars

\* A field write to slot S was appended and the entry of S still names the
\* earlier whole-object write.
C6_Witness ==
    /\ last # None
    /\ ret # None
    /\ Resolved(last[1])
    /\ MetaOf(last[1]).destination # None
    /\ MetaOf(last[1]).destination[1].projection # <<>>
    /\ LET k == <<DestFn(MirLocGet(last[1].mir_loc)[1]), MetaOf(last[1]).destination[1].local>>
       IN /\ latest_assignment[k] # None
          /\ NodeAt(latest_assignment[k][1][1], latest_assignment[k][1][2]).dest[1].projection = <<>>

(***************************************************************************)
(* C7 -- Append-only: a step never changes a graph or node that exists; it *)
(* only appends nodes at the end of a graph or graphs at the end of the    *)
(* arena.  (Step-wise, hence for every prefix k and every later event.)    *)
(***************************************************************************)
C7_AppendOnly ==
    [][/\ Len(graphs') >= Len(graphs)
       /\ \A g \in 1..Len(graphs) :
            /\ Len(graphs'[g]) >= Len(graphs[g])
            /\ SubSeq(graphs'[g], 1, Len(graphs[g])) = graphs[g]]_vars

\* Later events have grown an existing graph and added another one.
C7_Witness ==
    /\ processed = MaxEvents
    /\ Len(graphs) >= 2
    /\ \E g \in 1..Len(graphs) : Len(graphs[g]) >= 2

(***************************************************************************)
(* C8 -- No forward or cross-graph references: a node's source, when set,  *)
(* is the index of a node of the same graph with a strictly smaller index. *)
(***************************************************************************)
C8_SourceIsEarlierNode ==
    \A m \in AllNodes :
        NodeAt(m[1], m[2]).source # None
            => /\ NodeAt(m[1], m[2]).source[1] >= 0
               /\ NodeAt(m[1], m[2]).source[1] < m[2]

\* A node with a source exists in a graph that is not the first of the arena.
C8_Witness ==
    \E m \in AllNodes : m[1] >= 1 /\ NodeAt(m[1], m[2]).source # None

(***************************************************************************)
(* C9 -- Unresolvable location is skipped: an event whose location is not  *)
(* in the backing store produces no node, changes no table and does not    *)
(* abort.  Violated: add_node unwraps the lookup and panics.               *)
(***************************************************************************)
C9_UnresolvableSkipped ==
    [][\A e \in Events :
         (Processed(e) /\ ~Resolved(e))
         => /\ ~aborted'
            /\ ret' = None
            /\ UNCHANGED <<graphs, provenances, latest_assignment>>]_vars

(***************************************************************************)
(* C10 -- Untracked copy source, as stated: a CopyPtr event whose pointer  *)
(* has no provenance entry is logged, leaves the provenance table          *)
(* unchanged, still creates a node and does not panic.                     *)
(***************************************************************************)
C10_UntrackedCopyAsStated ==
    [][\A e \in Events :
         (Processed(e) /\ e.kind = "CopyPtr" /\ Resolved(e) /\ provenances[e.ptr] = None)
         => /\ warned'
            /\ provenances' = provenances
            /\ ret' # None
            /\ ~aborted']_vars

(***************************************************************************)
(* C10 amended -- a CopyPtr event whose pointer has no provenance entry is *)
(* not logged: a node is created, the pointer is bound to it, every other  *)
(* entry is unchanged and nothing panics.  The anomaly is logged exactly   *)
(* when the pointer already has an entry, and then the table is unchanged. *)
(***************************************************************************)
C10_UntrackedCopy ==
    [][\A e \in Events :
         (Processed(e) /\ e.kind = "CopyPtr" /\ Resolved(e))
         => /\ ret' # None
            /\ ~aborted'
            /\ warned' <=> provenances[e.ptr] # None
            /\ provenances[e.ptr] = None
                 => provenances' = [provenances EXCEPT ![e.ptr] = Some(NewMapping)]
            /\ provenances[e.ptr] # None => provenances' = provenances]_vars

\* A CopyPtr of a never-seen pointer was processed after other pointers were bound.
C10_Witness ==
    /\ last # None
    /\ last[1].kind = "CopyPtr"
    /\ ret # None
    /\ ~warned
    /\ provenances[last[1].ptr] # None
    /\ provenances[last[1].ptr][1][2] = ret[1]
    /\ \E p \in ProvKeys : p # last[1].ptr /\ provenances[p] # None

(***************************************************************************)
(* C11 -- No hard abort: add_node on an event whose location resolves      *)
(* completes (skips the event or appends one node) without aborting, for   *)
(* every kind and metadata.  Violated: a CopyRef event without destination *)
(* descriptor panics in update_provenance, after its node was pushed.      *)
(***************************************************************************)
C11_NoHardAbort ==
    (last # None /\ Resolved(last[1])) => ~aborted

(***************************************************************************)
(* C12 -- Ret and Done events are skipped entirely (graphs and both tables *)
(* unchanged), and every other event whose location resolves adds exactly  *)
(* one node, its own, after all the nodes its graph already had (which     *)
(* stay where they were) or as the only node of a new graph at the end of  *)
(* the arena.  So the nodes number the events that are neither Ret nor     *)
(* Done, and inside each graph they are in trace order.                    *)
(***************************************************************************)
C12_OneNodePerQualifyingEvent ==
    [][\A e \in Events :
         Processed(e)
         => /\ e.kind \in {"Ret", "Done"}
                 => /\ UNCHANGED <<graphs, provenances, latest_assignment>>
                    /\ ret' = None
                    /\ ~aborted'
            /\ (e.kind \notin {"Ret", "Done"} /\ Resolved(e))
                 => /\ \/ AppendedFresh
                       \/ \E g \in 0..(Len(graphs) - 1) : AppendedTo(g)
                    /\ LastNodeIsOf(e)]_vars

\* A Ret or Done event was processed after nodes had been created.
C12_Witness ==
    /\ last # None
    /\ last[1].kind \in {"Ret", "Done"}
    /\ Len(graphs) >= 1
    /\ ret = None
    /\ ~aborted

(***************************************************************************)
(* C13 -- Location resolution: the node of an event has function =         *)
(* destination-fn, where (source-fn, destination-fn) is (enclosing,        *)
(* enclosing) for hint None, (enclosing, target) for Arg(target) and       *)
(* (source, enclosing) for Ret(source); block and statement are (0, 0) for *)
(* Arg and the location's indices otherwise; the Latest-Assignment table   *)
(* is read under source-fn and written under destination-fn.               *)
(***************************************************************************)
C13_LocationResolution ==
    [][\A e \in Events :
         (Processed(e) /\ Resolved(e) /\ e.kind \notin {"Ret", "Done"})
         => LET loc == MirLocs[e.mir_loc]
                md == loc.metadata
                tk == md.transfer_kind
                src_fn == IF tk[1] = "Ret" THEN tk[2] ELSE loc.body_def
                dest_fn == IF tk[1] = "Arg" THEN tk[2] ELSE loc.body_def
                n == graphs'[NewMapping[1] + 1][NewMapping[2] + 1]
            IN /\ n.function = dest_fn
               /\ tk[1] = "Arg" => (n.block = 0 /\ n.index = 0)
               /\ tk[1] # "Arg" => (n.block = loc.basic_block_idx /\ n.index = loc.statement_idx)
               /\ (md.destination # None /\ ~aborted')
                    => /\ latest_assignment'[<<dest_fn, md.destination[1].local>>]
                            \in {Some(NewMapping),
                                 latest_assignment[<<dest_fn, md.destination[1].local>>]} \ {None}
                       /\ \A k \in Funcs \X Locals :
                            k # <<dest_fn, md.destination[1].local>>
                                => latest_assignment'[k] = latest_assignment[k]
               /\ (/\ md.source # None
                   /\ md.source[1].projection = <<>>
                   /\ PtrOf(graphs, HeadOf(provenances, e), md) = None)
                    => LET found == AndThenParent(e, latest_assignment[<<src_fn, md.source[1].local>>])
                       IN n.source = IF found = None THEN None ELSE Some(found[1][2])]_vars

\* An Arg event left a node of the target function at (0, 0), recorded under the
\* target function, and a Ret event of the enclosing function then read that
\* entry under its source function.
C13_Witness ==
    /\ last # None
    /\ Resolved(last[1])
    /\ MetaOf(last[1]).transfer_kind[1] = "Ret"
    /\ \E m \in AllNodes :
         /\ NodeAt(m[1], m[2]).function = 2
         /\ NodeAt(m[1], m[2]).block = 0
         /\ NodeAt(m[1], m[2]).index = 0
         /\ latest_assignment[<<2, 1>>] = Some(m)
         /\ Len(graphs[m[1] + 1]) > m[2] + 1
         /\ graphs[m[1] + 1][Len(graphs[m[1] + 1])].source = Some(m[2])
         /\ graphs[m[1] + 1][Len(graphs[m[1] + 1])].function = 1

\* The node the step appended, and what parent() leaves of a candidate source.
NewNode == graphs'[NewMapping[1] + 1][NewMapping[2] + 1]
Kept(e, cand) ==
    IF AndThenParent(e, cand) = None THEN None ELSE Some(AndThenParent(e, cand)[1][2])

\* The Latest-Assignment entry of the event's source descriptor, and whether the
\* graph it names ends with a Field node.
SourceEntry(e) ==
    latest_assignment[<<SrcFn(MirLocs[e.mir_loc]), MetaOf(e).source[1].local>>]
EndsWithField(entry) ==
    LET nodes == graphs[entry[1][1] + 1]
    IN nodes[Len(nodes)].kind.tag = "Field"
LastOf(entry) == Some(<<entry[1][1], Len(graphs[entry[1][1] + 1]) - 1>>)

(***************************************************************************)
(* C15 -- Source precedence, as stated: the candidate source is ptr if     *)
(* present; otherwise the Latest-Assignment result (or its field chase)    *)
(* when the event declares a source descriptor and the lookup yields a     *)
(* node; otherwise head -- so it is present whenever head is.  The node's  *)
(* source is what parent() keeps of the candidate.                         *)
(***************************************************************************)
C15_HeadFallbackAsStated ==
    [][\A e \in Events :
         (Processed(e) /\ Resolved(e) /\ e.kind \notin {"Ret", "Done"})
         => LET md == MetaOf(e)
                head == HeadOf(provenances, e)
                ptr == PtrOf(graphs, head, md)
                lookup ==
                    IF md.source = None THEN None
                    ELSE IF /\ md.source[1].projection # <<>>
                            /\ SourceEntry(e) # None
                            /\ EndsWithField(SourceEntry(e))
                         THEN LastOf(SourceEntry(e))
                         ELSE SourceEntry(e)
                cand == IF ptr # None THEN ptr
                        ELSE IF lookup # None THEN lookup
                        ELSE head
            IN /\ head # None => cand # None
               /\ NewNode.source = Kept(e, cand)]_vars

(***************************************************************************)
(* C15 amended -- the candidate source is ptr if present; otherwise absent *)
(* when the event declares no source descriptor; otherwise the trailing    *)
(* Field node found by the chase; otherwise the Latest-Assignment entry    *)
(* (possibly absent) when the projection is empty or the event is a Field  *)
(* event; otherwise head.  Head is the fallback only for a non-Field event *)
(* whose source projection is non-empty.                                   *)
(***************************************************************************)
C15_SourcePrecedence ==
    [][\A e \in Events :
         (Processed(e) /\ Resolved(e) /\ e.kind \notin {"Ret", "Done"})
         => LET md == MetaOf(e)
                head == HeadOf(provenances, e)
                ptr == PtrOf(graphs, head, md)
                cand ==
                    IF ptr # None THEN ptr
                    ELSE IF md.source = None THEN None
                    ELSE IF /\ md.source[1].projection # <<>>
                            /\ SourceEntry(e) # None
                            /\ EndsWithField(SourceEntry(e))
                         THEN LastOf(SourceEntry(e))
                    ELSE IF md.source[1].projection = <<>> \/ e.kind = "Field"
                         THEN SourceEntry(e)
                    ELSE head
            IN NewNode.source = Kept(e, cand)]_vars

\* An Alloc that declares no source descriptor joined the graph of its pointer
\* (head was present) and its node has no source.
C15_Witness ==
    /\ last # None
    /\ last[1].kind = "Alloc"
    /\ Resolved(last[1])
    /\ MetaOf(last[1]).source = None
    /\ ret # None
    /\ ret[1] >= 1
    /\ provenances[last[1].ptr] # None
    /\ provenances[last[1].ptr][1][2] = ret[1]
    /\ NodeAt(provenances[last[1].ptr][1][1], ret[1]).source = None

(***************************************************************************)
(* C16 -- Field-projection chase, as stated: with ptr absent, a source     *)
(* descriptor with a non-empty projection and a Latest-Assignment entry    *)
(* (G, n), the candidate source is the last node of G when that node is a  *)
(* Field node, for every kind, and the entry (G, n) itself otherwise.      *)
(***************************************************************************)
C16_FieldChaseAsStated ==
    [][\A e \in Events :
         (/\ Processed(e) /\ Resolved(e) /\ e.kind \notin {"Ret", "Done"}
          /\ MetaOf(e).source # None
          /\ MetaOf(e).source[1].projection # <<>>
          /\ PtrOf(graphs, HeadOf(provenances, e), MetaOf(e)) = None
          /\ SourceEntry(e) # None)
         => LET cand == IF EndsWithField(SourceEntry(e))
                        THEN LastOf(SourceEntry(e))
                        ELSE SourceEntry(e)
            IN NewNode.source = Kept(e, cand)]_vars

(***************************************************************************)
(* C16 amended -- as stated when the last node of G is a Field node;       *)
(* otherwise the candidate is the entry (G, n) only for a Field event, and *)
(* head (absent when the pointer has no provenance entry) for every other  *)
(* kind.                                                                   *)
(***************************************************************************)
C16_FieldChase ==
    [][\A e \in Events :
         (/\ Processed(e) /\ Resolved(e) /\ e.kind \notin {"Ret", "Done"}
          /\ MetaOf(e).source # None
          /\ MetaOf(e).source[1].projection # <<>>
          /\ PtrOf(graphs, HeadOf(provenances, e), MetaOf(e)) = None
          /\ SourceEntry(e) # None)
         => LET cand == IF EndsWithField(SourceEntry(e))
                        THEN LastOf(SourceEntry(e))
                        ELSE IF e.kind = "Field" THEN SourceEntry(e)
                        ELSE HeadOf(provenances, e)
            IN NewNode.source = Kept(e, cand)]_vars

\* An event with a projected source descriptor was chained to the trailing
\* Field node of the graph its Latest-Assignment entry names.
C16_Witness ==
    /\ last # None
    /\ Resolved(last[1])
    /\ MetaOf(last[1]).source # None
    /\ MetaOf(last[1]).source[1].projection # <<>>
    /\ ret # None
    /\ \E g \in 1..Len(graphs) :
         /\ Len(graphs[g]) = ret[1] + 1
         /\ ret[1] >= 1
         /\ graphs[g][ret[1] + 1].source = Some(ret[1] - 1)
         /\ graphs[g][ret[1]].kind.tag = "Field"
         /\ graphs[g][ret[1] + 1].kind.tag = "AddrOfLocal"

(***************************************************************************)
(* C17 as stated -- Provenance update rule: after add_node appends node    *)
(* (g, n), the entry of the event's result pointer is (g, n) (ptr for      *)
(* Alloc and AddrOfLocal, new_ptr for Realloc and Offset, the destination  *)
(* slot for CopyRef) and a Realloc leaves the entry of its old_ptr as it   *)
(* was.  Violated: a Realloc in place (old_ptr = new_ptr) rebinds the      *)
(* pointer, so the entry old_ptr had is overwritten.                       *)
(***************************************************************************)
C17_ReallocKeepsOldAsStated ==
    [][\A e \in Events :
         (Processed(e) /\ ret' # None /\ e.kind = "Realloc")
         => /\ provenances'[e.new_ptr] = Some(NewMapping)
            /\ provenances[e.ptr] # None => provenances'[e.ptr] = provenances[e.ptr]]_vars

(***************************************************************************)
(* C17 -- Provenance update rule: when add_node has appended node (g, n),  *)
(* the table differs from before only in the entry of the event's result   *)
(* pointer, which is (g, n) whatever it was: ptr for Alloc and AddrOfLocal,*)
(* new_ptr for Realloc and Offset, the destination slot for CopyRef.  The  *)
(* old_ptr of a Realloc keeps its entry exactly when it is another pointer *)
(* than new_ptr; a Realloc in place rebinds it to (g, n).  Kinds other     *)
(* than these and CopyPtr leave the table unchanged, and no step removes   *)
(* an entry.                                                               *)
(***************************************************************************)
C17_ProvenanceUpdate ==
    [][\A e \in Events :
         Processed(e)
         => /\ \A k \in ProvKeys : provenances[k] # None => provenances'[k] # None
            /\ ret' # None
                 => CASE e.kind \in {"Alloc", "AddrOfLocal"} ->
                           provenances' = [provenances EXCEPT ![e.ptr] = Some(NewMapping)]
                      [] e.kind = "Realloc" ->
                           /\ provenances' = [provenances EXCEPT ![e.new_ptr] = Some(NewMapping)]
                           /\ provenances'[e.ptr] =
                                 IF e.ptr = e.new_ptr THEN Some(NewMapping) ELSE provenances[e.ptr]
                      [] e.kind = "Offset" ->
                           provenances' = [provenances EXCEPT ![e.new_ptr] = Some(NewMapping)]
                      [] e.kind = "CopyRef" ->
                           provenances' = [provenances EXCEPT
                                              ![MetaOf(e).destination[1].local] = Some(NewMapping)]
                      [] e.kind = "CopyPtr" -> TRUE
                      [] OTHER -> provenances' = provenances]_vars

\* A Realloc in place rebound its pointer to its own node.  The pointer was
\* bound before: the location has no source place, so the node went to a graph
\* that existed only through the pointer's earlier entry (head).
C17_Witness ==
    /\ last # None
    /\ last[1].kind = "Realloc"
    /\ last[1].ptr = last[1].new_ptr
    /\ MetaOf(last[1]).source = None
    /\ ret # None
    /\ ret[1] >= 1
    /\ provenances[last[1].ptr] # None
    /\ provenances[last[1].ptr][1][2] = ret[1]
    /\ Len(graphs[provenances[last[1].ptr][1][1] + 1]) = ret[1] + 1

(***************************************************************************)
(* C18 -- Tracker well-formedness: every provenance entry and every        *)
(* Latest-Assignment entry names a node that exists, and the entry of      *)
(* (f, slot) names a node whose function is f and whose dest is present    *)
(* with slot `slot`.                                                       *)
(***************************************************************************)
C18_TrackersWellFormed ==
    /\ \A p \in ProvKeys :
         provenances[p] # None => provenances[p][1] \in AllNodes
    /\ \A k \in Funcs \X Locals :
         latest_assignment[k] # None
            => /\ latest_assignment[k][1] \in AllNodes
               /\ LET n == NodeAt(latest_assignment[k][1][1], latest_assignment[k][1][2])
                  IN /\ n.function = k[1]
                     /\ n.dest # None
                     /\ n.dest[1].local = k[2]

\* A field write inspected the previous entry of its slot, and entries exist
\* for both functions.
C18_Witness ==
    /\ last # None
    /\ ret # None
    /\ Resolved(last[1])
    /\ MetaOf(last[1]).destination # None
    /\ MetaOf(last[1]).destination[1].projection # <<>>
    /\ latest_assignment[<<1, 1>>] # None
    /\ latest_assignment[<<1, 1>>][1][2] # ret[1]
    /\ latest_assignment[<<2, 1>>] # None
    /\ \E p \in ProvKeys : provenances[p] # None

(***************************************************************************)
(* C19 -- Each graph has at least one node in every state between events,  *)
(* also after skipped and aborted events.                                  *)
(***************************************************************************)
C19_NoEmptyGraph ==
    \A g \in 1..Len(graphs) : Len(graphs[g]) >= 1

\* Two graphs exist right after a skipped event.
C19_Witness ==
    /\ last # None
    /\ last[1].kind \in {"Ret", "Done"}
    /\ Len(graphs) >= 2

(***************************************************************************)
(* C20 -- In distribute, a rewrite on a statement or terminator itself     *)
(* (empty sub-location path, unlower origin StoreIntoLocal) results in an  *)
(* error and is attached to no HirId, for every unlower map: when it is    *)
(* the only rewrite, distribute has reported an error and returns an empty *)
(* map.                                                                    *)
(* Violated: with an Expr origin under [Rvalue] the rewrite is filed under *)
(* that expression, no error is reported in the loop or by the ambiguity   *)
(* check, and the map returned holds it; otherwise the error is logged but *)
(* the rewrite is still filed under the StoreIntoLocal origin's HirId.     *)
(***************************************************************************)
C20_StatementRewriteIsError ==
    \A rw \in Rewrites :
        (/\ dist_done
         /\ ~dist_panicked
         /\ dist_count = 1
         /\ dist_last = Some(rw)
         /\ rw.sub_loc = <<>>
         /\ unlower_map[<<rw.loc, <<>>>>] # None
         /\ unlower_map[<<rw.loc, <<>>>>][1].desc = "StoreIntoLocal")
        => /\ dist_error \/ dist_ambiguous # {}
           /\ dist_result = Some(KindsOnly([h \in HirIds |-> <<>>]))

====
